---- MODULE Spec2Model ----
(***************************************************************************)
(* Model of analysis/regression.py: the run abstraction (RegressionRun and *)
(* its variants), the prediction-capability mixins, and the presentation   *)
(* functions (plot_histograms, plot_*_profile, tabulate_statistics).       *)
(*                                                                         *)
(* Python objects are records [cls, d, io, fills]: cls is the class name,  *)
(* d the instance __dict__ (a function whose DOMAIN is the set of          *)
(* attributes that exist on the instance), io counts the reads of the      *)
(* external data source per source array, fills counts how often the body  *)
(* of a lazy accessor started to compute.  Python values are tagged        *)
(* records [t, v].  A call that can raise returns a record with an exc     *)
(* field ("" = no exception).                                              *)
(***************************************************************************)
EXTENDS Integers, Sequences, FiniteSets, TLC

\* TLC keeps the fields of a record in the order in which their names first
\* occur in the module.  Listing them here makes that order alphabetical; every
\* record below is written in it, so that no record is ever re-sorted.
RecordFields ==
    DOMAIN [a |-> 0, args |-> 0, attr |-> 0, binning |-> 0, called |-> 0,
            cls |-> 0, color |-> 0, combined_runs |-> 0, d |-> 0,
            directory |-> 0, drawn |-> 0, edges |-> 0, exc |-> 0, fills |-> 0,
            fitqun_output |-> 0, h |-> 0, hist_args |-> 0, indices |-> 0,
            io |-> 0, kwargs |-> 0,
            label |-> 0, legend |-> 0, lw |-> 0, mixin |-> 0,
            n |-> 0, n_events |-> 0, name |-> 0, particle_label_map |-> 0,
            plot_args |-> 0, q |-> 0, quantities |-> 0, quantity |-> 0,
            run_label |-> 0, run_list |-> 0, selection |-> 0, self |-> 0,
            slot |-> 0, stat_labels |-> 0, statistic |-> 0, t |-> 0,
            transpose |-> 0, true_directions |-> 0, true_labels |-> 0,
            true_momenta |-> 0, true_positions |-> 0, v |-> 0, val |-> 0,
            values |-> 0]

VARIABLES
    runs,      \* slot -> run object, or NoRun when nothing is bound there
    op,        \* the last operation and its arguments
    ret,       \* its outcome: [exc, val]
    calls,     \* the calls of caller-supplied functions it made, in order
    renders    \* the render calls it made on the axes, in order

vars == <<runs, op, ret, calls, renders>>

-----------------------------------------------------------------------------
(* Bounds *)

MaxEvents == 2      \* events in a data source
MaxReads == 3       \* cap on the source-read counters
MaxQuantities == 2  \* quantities in one table
MaxValues == 4      \* values handed to apply_binning

-----------------------------------------------------------------------------
(* Python values *)

None == [t |-> "None"]
Ellipsis == [t |-> "Ellipsis"]
PyInt(i) == [t |-> "int", v |-> i]
Str(s) == [t |-> "str", v |-> s]
Arr(s) == [t |-> "ndarray", v |-> s]
Dict(f) == [t |-> "dict", v |-> f]
Fn(name) == [t |-> "function", v |-> name]
Ext(name, args) == [t |-> "ext", v |-> <<name, args>>]
IsNone(x) == x.t = "None"

Ok(v) == [exc |-> "", val |-> v]
Raise(e) == [exc |-> e, val |-> None]

NoRun == [cls |-> "none"]
EmptyDict == [k \in {} |-> None]
NoArgs == [k \in {} |-> ""]         \* no keyword arguments
NewObject(cls) == [cls |-> cls, d |-> EmptyDict, fills |-> EmptyDict, io |-> EmptyDict]
Put(f, k, val) == [x \in DOMAIN f \union {k} |-> IF x = k THEN val ELSE f[x]]
SetAttr(self, name, val) == [self EXCEPT !.d = Put(@, name, val)]
Count(f, k) == IF k \in DOMAIN f THEN f[k] ELSE 0
Bump(f, k) == Put(f, k, Count(f, k) + 1)

-----------------------------------------------------------------------------
(* numpy arithmetic on the arrays the module handles.  Scalars are         *)
(* integers; a true division gives a reduced rational [n, d], with d = 0   *)
(* for the IEEE results of a division by zero (n = 1: inf, -1: -inf,       *)
(* 0: nan).                                                                *)

Abs(x) == IF x < 0 THEN -x ELSE x
Sign(x) == IF x < 0 THEN -1 ELSE IF x > 0 THEN 1 ELSE 0

RECURSIVE GCD(_, _)
GCD(a, b) == IF b = 0 THEN a ELSE GCD(b, a % b)

Div(a, b) ==
    IF b = 0 THEN [d |-> 0, n |-> Sign(a)]
    ELSE LET g == GCD(Abs(a), Abs(b))
         IN  [d |-> Abs(b) \div g, n |-> (Sign(b) * a) \div g]

Range(s) == {s[i] : i \in DOMAIN s}
Trues(mask) == {i \in DOMAIN mask : mask[i]}

RECURSIVE SetToSeq(_)
SetToSeq(S) ==
    IF S = {} THEN <<>>
    ELSE LET m == CHOOSE x \in S : \A y \in S : x <= y
         IN  <<m>> \o SetToSeq(S \ {m})

\* a[selection] for a one-axis selection: Ellipsis keeps everything, an
\* index array picks the listed positions (1-based here) in the given order.
Select(a, selection) ==
    IF selection.t = "Ellipsis" THEN a
    ELSE [i \in DOMAIN selection.v |-> a[selection.v[i]]]

\* a - b and a / b, elementwise, on arrays of equal length.
Sub(a, b) == [i \in DOMAIN a |-> a[i] - b[i]]
SubVec(a, b) == [i \in DOMAIN a |-> [k \in 1..3 |-> a[i][k] - b[i][k]]]
DivArr(a, b) == [i \in DOMAIN a |-> Div(a[i], b[i])]
Column(a, k) == [i \in DOMAIN a |-> a[i][k]]
EqMask(a, l) == [i \in DOMAIN a |-> a[i] = l]
Zeros(n) == [i \in 1..n |-> 0]
ZerosVec(n) == [i \in 1..n |-> <<0, 0, 0>>]

\* a[mask] = b with a boolean mask: b must have as many entries as the mask
\* has True values (they go to the True positions in order) or exactly one
\* (broadcast); anything else is numpy's ValueError.
MaskAssign(a, mask, b) ==
    LET pos == SetToSeq(Trues(mask))
        rank(i) == CHOOSE k \in DOMAIN pos : pos[k] = i
    IN  IF Len(b) = Len(pos)
        THEN [a |-> [i \in DOMAIN a |-> IF mask[i] THEN b[rank(i)] ELSE a[i]], exc |-> ""]
        ELSE IF Len(b) = 1
        THEN [a |-> [i \in DOMAIN a |-> IF mask[i] THEN b[1] ELSE a[i]], exc |-> ""]
        ELSE [a |-> a, exc |-> "ValueError"]

-----------------------------------------------------------------------------
(* The external collaborators: the fit output and the model-output reader  *)
(* hold fixed data, distinct for every (hypothesis, event) so that a wrong *)
(* selection shows; analysis.utils.math is not part of the source at hand. *)

Hypotheses == <<"electron", "muon", "pi0">>
HypIndex(h) == CHOOSE k \in DOMAIN Hypotheses : Hypotheses[k] = h
HypValue(h, c) == (MaxEvents + 2) * HypIndex(h) + c

\* fitqun_output.<h>_<q> for a chain of n events
FitQunArray(h, q, n) ==
    IF q = "momentum" THEN [c \in 1..n |-> HypValue(h, c)]
    ELSE IF q = "position" THEN [c \in 1..n |-> <<HypValue(h, c), 0, -HypValue(h, c)>>]
    ELSE [c \in 1..n |-> <<HypIndex(h), c, 1>>]

\* WatChMaLOutput.get_outputs("predictions") of a directory holding n events
get_outputs(cls, n) ==
    IF cls = "WatChMaLPositionRegression" THEN [c \in 1..n |-> <<c, 2 * c, 3 * c>>]
    ELSE IF cls = "WatChMaLDirectionRegression" THEN [c \in 1..n |-> <<c, 1>>]
    ELSE [c \in 1..n |-> 200 + c]

particle_masses == <<0, 1, 106, 135>>
Isqrt(x, hi) == CHOOSE r \in 0..hi : r * r <= x /\ (r + 1) * (r + 1) > x

\* sqrt(p^2 + m^2) per event, m from the rest-mass table keyed by the label
energy_from_momentum(momentum, label) ==
    IF IsNone(label) \/ \E i \in DOMAIN label.v : label.v[i] + 1 \notin DOMAIN particle_masses
    THEN Raise("UnknownParticleTypeError")
    ELSE Ok(Arr([i \in DOMAIN momentum.v |->
            LET m == particle_masses[label.v[i] + 1]
                p == momentum.v[i]
            IN  Isqrt(p * p + m * m, Abs(p) + m)]))

\* sqrt(E^2 - m^2) per event
momentum_from_energy(energy, label) ==
    IF IsNone(label) \/ \E i \in DOMAIN label.v : label.v[i] + 1 \notin DOMAIN particle_masses
    THEN Raise("UnknownParticleTypeError")
    ELSE Ok(Arr([i \in DOMAIN energy.v |->
            LET m == particle_masses[label.v[i] + 1]
                e == energy.v[i]
            IN  Isqrt(e * e - m * m, e)]))

-----------------------------------------------------------------------------
(* class RegressionRun *)

RegressionRun_init_keeping_label(self, run_label, plot_args) ==
    SetAttr(SetAttr(self, "run_label", Str(run_label)),
            "plot_args", Dict(IF "label" \in DOMAIN plot_args THEN plot_args
                              ELSE Put(plot_args, "label", run_label)))
RegressionRun_init(self, run_label, plot_args) ==
    LET args == Put(plot_args, "label", run_label)
    IN  SetAttr(SetAttr(self, "run_label", Str(run_label)), "plot_args", Dict(args))

-----------------------------------------------------------------------------
(* class FitQun1RingFit: the lazy accessors *)

CacheName(q) == CASE q = "momentum" -> "_momentum_prediction"
                  [] q = "position" -> "_position_prediction"
                  [] q = "direction" -> "_direction_prediction"
PropName(q) == CASE q = "momentum" -> "momentum_prediction"
                 [] q = "position" -> "position_prediction"
                 [] q = "direction" -> "direction_prediction"
MapName(q) == CASE q = "momentum" -> "momentum_map"
                [] q = "position" -> "position_map"
                [] q = "direction" -> "direction_map"
Quantities == {"momentum", "position", "direction"}

\* momentum_map / position_map / direction_map: particle type -> lambda
\* reading one hypothesis array of the fit output under `indices`
HypothesisMap(q, indices) ==
    Dict([p \in {"gamma", "electron", "muon", "pi0"} |->
            [h |-> IF p = "gamma" THEN "electron" ELSE p, indices |-> indices, q |-> q,
             t |-> "lambda"]])

CallLambda(self, f) ==
    Select(FitQunArray(f.h, f.q, self.d["fitqun_output"].v), f.indices)

RECURSIVE FillPrediction(_, _, _)
\* for p, i in self.particle_indices.items(): self._q_prediction[i] = self.q_map[p]()
FillPrediction(self, q, k) ==
    LET items == self.d["particle_indices"].v
    IN  IF k > Len(items) THEN [exc |-> "", self |-> self]
        ELSE LET p == items[k][1]
                 i == items[k][2]
                 map == self.d[MapName(q)].v
             IN  IF p \notin DOMAIN map THEN [exc |-> "KeyError", self |-> self]
                 ELSE LET f == map[p]
                          read == [self EXCEPT !.io = Bump(@, <<f.h, q>>)]
                          asg == MaskAssign(self.d[CacheName(q)].v, i, CallLambda(self, f))
                      IN  IF asg.exc # "" THEN [exc |-> asg.exc, self |-> read]
                          ELSE FillPrediction(SetAttr(read, CacheName(q), Arr(asg.a)), q, k + 1)

\* the body of the properties when nothing is cached yet
Begun(self, q) ==
    LET n == self.d["n_events"].v
        zeros == IF q = "momentum" THEN Zeros(n) ELSE ZerosVec(n)
    IN  [SetAttr(self, CacheName(q), Arr(zeros)) EXCEPT !.fills = Bump(@, q)]
Filled(done, q) ==
    IF done.exc # "" THEN [exc |-> done.exc, self |-> done.self, val |-> None]
    ELSE [exc |-> "", self |-> done.self, val |-> done.self.d[CacheName(q)]]
FitQun_compute(self, q) == Filled(FillPrediction(Begun(self, q), q, 1), q)

FitQun_prediction_nocache(self, q) == FitQun_compute(self, q)

\* the properties momentum_prediction, position_prediction, direction_prediction
FitQun_prediction(self, q) ==
    IF IsNone(self.d[CacheName(q)]) THEN FitQun_compute(self, q)
    ELSE [exc |-> "", self |-> self, val |-> self.d[CacheName(q)]]

-----------------------------------------------------------------------------
(* class WatChMaLRegression and its variants: the lazy accessors *)

WatChMaLClasses ==
    {"WatChMaLPositionRegression", "WatChMaLDirectionRegression", "WatChMaLEnergyRegression"}

\* the property predictions
WatChMaL_predictions(self) ==
    IF IsNone(self.d["_predictions"])
    THEN LET read == [self EXCEPT !.io = Bump(@, <<"outputs", "predictions">>),
                                  !.fills = Bump(@, "predictions")]
             got == SetAttr(read, "_predictions",
                            Arr(get_outputs(self.cls, self.d["directory"].v)))
         IN  [exc |-> "", self |-> got, val |-> got.d["_predictions"]]
    ELSE [exc |-> "", self |-> self, val |-> self.d["_predictions"]]

\* WatChMaLDirectionRegression.direction_prediction
Converted_direction(p) ==
    LET conv == Ext("direction_from_angles", <<p.val, p.self.d["zenith_axis"]>>)
        got == [SetAttr(p.self, "_direction_prediction", conv)
                    EXCEPT !.fills = Bump(@, "direction")]
    IN  [exc |-> "", self |-> got, val |-> conv]
WatChMaL_direction_prediction(self) ==
    IF IsNone(self.d["_direction_prediction"])
    THEN Converted_direction(WatChMaL_predictions(self))
    ELSE [exc |-> "", self |-> self, val |-> self.d["_direction_prediction"]]

\* WatChMaLEnergyRegression.momentum_prediction
Converted_momentum(p) ==
    LET conv == momentum_from_energy(p.val, p.self.d["true_labels"])
        begun == [p.self EXCEPT !.fills = Bump(@, "momentum")]
    IN  IF conv.exc # "" THEN [exc |-> conv.exc, self |-> begun, val |-> None]
        ELSE [exc |-> "",
              self |-> SetAttr(begun, "_momentum_prediction", conv.val), val |-> conv.val]
WatChMaL_momentum_prediction(self) ==
    IF IsNone(self.d["_momentum_prediction"])
    THEN Converted_momentum(WatChMaL_predictions(self))
    ELSE [exc |-> "", self |-> self, val |-> self.d["_momentum_prediction"]]

-----------------------------------------------------------------------------
(* Attribute lookup on a run that defines no __getattr__: properties of    *)
(* the class first, then the instance __dict__, then the methods.          *)

Methods == {"get_quantity", "plot_binned_resolution", "plot_binned_bias"}

HasPrediction(cls, q) ==
    \/ cls = "FitQun1RingFit"
    \/ cls = "WatChMaLPositionRegression" /\ q = "position"
    \/ cls = "WatChMaLDirectionRegression" /\ q = "direction"
    \/ cls = "WatChMaLEnergyRegression" /\ q = "momentum"

\* self.momentum_prediction / position_prediction / direction_prediction
Prediction(self, q) ==
    IF self.cls = "FitQun1RingFit" THEN FitQun_prediction(self, q)
    ELSE IF q = "position" THEN WatChMaL_predictions(self)
    ELSE IF q = "direction" THEN WatChMaL_direction_prediction(self)
    ELSE WatChMaL_momentum_prediction(self)

\* MomentumPrediction.energy_prediction
Energy(p) ==
    LET e == energy_from_momentum(p.val, p.self.d["true_labels"])
    IN  IF p.exc # "" THEN p
        ELSE [exc |-> e.exc, self |-> p.self, val |-> e.val]
energy_prediction(self) == Energy(Prediction(self, "momentum"))

Properties(cls) ==
    {PropName(q) : q \in {x \in Quantities : HasPrediction(cls, x)}}
        \union (IF HasPrediction(cls, "momentum") THEN {"energy_prediction"} ELSE {})
        \union (IF cls \in WatChMaLClasses THEN {"predictions"} ELSE {})

GetAttr(self, name) ==
    IF name \in Properties(self.cls)
    THEN IF name = "predictions" THEN WatChMaL_predictions(self)
         ELSE IF name = "energy_prediction" THEN energy_prediction(self)
         ELSE Prediction(self, CHOOSE q \in Quantities : PropName(q) = name)
    ELSE IF name \in DOMAIN self.d THEN [exc |-> "", self |-> self, val |-> self.d[name]]
    ELSE IF name \in Methods THEN [exc |-> "", self |-> self, val |-> Fn(name)]
    ELSE [exc |-> "AttributeError", self |-> self, val |-> None]

-----------------------------------------------------------------------------
(* The prediction-capability mixins *)

residuals_reversed(prediction, truth) == Arr(Sub(truth.v, prediction.v))

\* prediction - truth, and residuals / truth
residuals(prediction, truth) == Arr(Sub(prediction.v, truth.v))
fractional_errors(res, truth) == Arr(DivArr(res.v, truth.v))
position_residuals(prediction, truth) == Arr(SubVec(prediction.v, truth.v))

\* lines 365-366, given the value of self.energy_prediction
EnergyResiduals(ep, te) ==
    LET eres == residuals(ep.val, te.val)
    IN  IF ep.exc # "" THEN [exc |-> ep.exc, self |-> ep.self]
        ELSE [exc |-> "",
              self |-> SetAttr(SetAttr(ep.self, "energy_residuals", eres),
                               "energy_fractional_errors", fractional_errors(eres, te.val))]
\* line 364, given the value of math.energy_from_momentum(true_momenta, true_labels)
TrueEnergies(s1, te) ==
    IF te.exc # "" THEN [exc |-> te.exc, self |-> s1]
    ELSE EnergyResiduals(energy_prediction(SetAttr(s1, "true_energies", te.val)), te)
\* lines 361-363, given the value of self.momentum_prediction
MomentumResiduals(p, true_momenta, true_labels) ==
    LET res == residuals(p.val, true_momenta)
        s1 == SetAttr(SetAttr(p.self, "momentum_residuals", res),
                      "momentum_fractional_errors", fractional_errors(res, true_momenta))
    IN  IF p.exc # "" THEN [exc |-> p.exc, self |-> p.self]
        ELSE IF IsNone(true_labels) THEN [exc |-> "", self |-> s1]
        ELSE TrueEnergies(s1, energy_from_momentum(true_momenta, true_labels))
MomentumPrediction_init(self, true_momenta, true_labels) ==
    LET s0 == SetAttr(SetAttr(SetAttr(SetAttr(SetAttr(self,
                "true_labels", true_labels), "true_momenta", true_momenta),
                "true_energies", None), "momentum_residuals", None),
                "energy_residuals", None)
    IN  IF IsNone(true_momenta) THEN [exc |-> "", self |-> s0]
        ELSE MomentumResiduals(Prediction(s0, "momentum"), true_momenta, true_labels)

\* lines 385-393, given the value of self.position_prediction
PositionResiduals(p, true_positions, true_directions) ==
    LET res == position_residuals(p.val, true_positions)
        s1 == SetAttr(SetAttr(SetAttr(SetAttr(p.self,
                "position_residuals", res), "x_residuals", Arr(Column(res.v, 1))),
                "y_residuals", Arr(Column(res.v, 2))), "z_residuals", Arr(Column(res.v, 3)))
        dec(part) == Ext("decompose_along_direction", <<part, res, true_directions>>)
    IN  IF p.exc # "" THEN [exc |-> p.exc, self |-> p.self]
        ELSE IF ~IsNone(true_directions)
        THEN [exc |-> "",
              self |-> SetAttr(SetAttr(SetAttr(s1,
                        "position_3d_errors", dec("total")),
                        "position_longitudinal_errors", dec("longitudinal")),
                        "position_transverse_errors", dec("transverse"))]
        ELSE [exc |-> "",
              self |-> SetAttr(s1, "position_3d_errors", Ext("norm", <<res>>))]
PositionPrediction_init(self, true_positions, true_directions) ==
    LET s0 == SetAttr(SetAttr(SetAttr(SetAttr(self,
                "true_positions", true_positions), "position_longitudinal_errors", None),
                "position_transverse_errors", None), "position_3d_errors", None)
    IN  IF IsNone(true_positions) THEN [exc |-> "", self |-> s0]
        ELSE PositionResiduals(Prediction(s0, "position"), true_positions, true_directions)

\* line 406, given the value of self.direction_prediction
DirectionErrors(p, true_directions) ==
    IF p.exc # "" THEN [exc |-> p.exc, self |-> p.self]
    ELSE [exc |-> "",
          self |-> SetAttr(p.self, "direction_errors",
                    Ext("angle_between_directions", <<p.val, true_directions>>))]
DirectionPrediction_init(self, true_directions) ==
    LET s0 == SetAttr(SetAttr(self, "true_directions", true_directions),
                      "direction_errors", None)
    IN  IF IsNone(true_directions) THEN [exc |-> "", self |-> s0]
        ELSE DirectionErrors(Prediction(s0, "direction"), true_directions)

-----------------------------------------------------------------------------
(* The constructors.  Each returns [self, exc]; the caller binds self only *)
(* when exc = "".                                                          *)

DefaultParticleLabelMap ==
    <<<<"gamma", 0>>, <<"electron", 1>>, <<"muon", 2>>, <<"pi0", 3>>>>

RECURSIVE Chain(_, _)
\* run the remaining mixin initialisers in order, stopping at the first raise
Chain(r, inits) ==
    IF r.exc # "" \/ inits = <<>> THEN r
    ELSE LET i == Head(inits)
             next == CASE i.mixin = "position" ->
                            PositionPrediction_init(r.self, i.true_positions, i.true_directions)
                       [] i.mixin = "direction" ->
                            DirectionPrediction_init(r.self, i.true_directions)
                       [] i.mixin = "momentum" ->
                            MomentumPrediction_init(r.self, i.true_momenta, i.true_labels)
         IN  Chain(next, Tail(inits))

particle_indices(true_labels, particle_label_map, label_set) ==
    LET kept == SelectSeq(particle_label_map, LAMBDA e : e[2] \in label_set)
    IN  [k \in DOMAIN kept |-> <<kept[k][1], EqMask(true_labels.v, kept[k][2])>>]

FitQun1RingFit_init(fitqun_output, run_label, true_positions, true_directions, true_momenta, true_labels_arg, indices, particle_label_map_arg, plot_args) ==
    LET s0 == RegressionRun_init(NewObject("FitQun1RingFit"), run_label, plot_args)
        n_events == Len(Select([c \in 1..fitqun_output.v |-> c], indices))
        true_labels == IF true_labels_arg.t = "int"
                       THEN Arr([i \in 1..n_events |-> true_labels_arg.v])
                       ELSE true_labels_arg
        particle_label_map == IF IsNone(particle_label_map_arg)
                              THEN DefaultParticleLabelMap
                              ELSE particle_label_map_arg.v
        s1 == SetAttr(SetAttr(SetAttr(SetAttr(s0,
                "fitqun_output", fitqun_output), "n_events", PyInt(n_events)),
                "true_labels", true_labels), "particle_label_map", Dict(particle_label_map))
        label_set == Range(true_labels.v)
        s2 == SetAttr(SetAttr(s1, "label_set", [t |-> "set", v |-> label_set]),
                "particle_indices",
                Dict(particle_indices(true_labels, particle_label_map, label_set)))
        s3 == SetAttr(SetAttr(SetAttr(s2, "_momentum_prediction", None),
                "_position_prediction", None), "_direction_prediction", None)
        s4 == SetAttr(SetAttr(SetAttr(s3,
                "momentum_map", HypothesisMap("momentum", indices)),
                "position_map", HypothesisMap("position", indices)),
                "direction_map", HypothesisMap("direction", indices))
    IN  IF IsNone(true_labels) THEN [exc |-> "TypeError", self |-> s1]
        ELSE Chain([exc |-> "", self |-> s4],
                   <<[mixin |-> "position", true_directions |-> true_directions,
                      true_positions |-> true_positions],
                     [mixin |-> "direction", true_directions |-> true_directions],
                     [mixin |-> "momentum", true_labels |-> true_labels,
                      true_momenta |-> true_momenta]>>)

WatChMaLRegression_init(cls, directory, run_label, indices, plot_args) ==
    LET s0 == RegressionRun_init(NewObject(cls), run_label, plot_args)
        s1 == SetAttr(SetAttr(s0, "directory", directory), "indices", indices)
    IN  SetAttr(s1, "_predictions", None)

WatChMaLPositionRegression_init(directory, run_label, true_positions, true_directions, indices, plot_args) ==
    Chain([exc |-> "",
           self |-> WatChMaLRegression_init("WatChMaLPositionRegression", directory,
                                            run_label, indices, plot_args)],
          <<[mixin |-> "position", true_directions |-> true_directions,
             true_positions |-> true_positions]>>)

WatChMaLDirectionRegression_init(directory, run_label, true_directions, indices, zenith_axis, plot_args) ==
    LET s0 == WatChMaLRegression_init("WatChMaLDirectionRegression", directory,
                                      run_label, indices, plot_args)
        s1 == SetAttr(SetAttr(s0, "_direction_prediction", None), "zenith_axis", zenith_axis)
    IN  Chain([exc |-> "", self |-> s1],
              <<[mixin |-> "direction", true_directions |-> true_directions]>>)

WatChMaLEnergyRegression_init(directory, run_label, true_momenta, true_labels, indices, plot_args) ==
    LET s0 == WatChMaLRegression_init("WatChMaLEnergyRegression", directory,
                                      run_label, indices, plot_args)
    IN  Chain([exc |-> "", self |-> SetAttr(s0, "_momentum_prediction", None)],
              <<[mixin |-> "momentum", true_labels |-> true_labels,
                 true_momenta |-> true_momenta]>>)

\* combined_runs is the list of the slots of the runs; h is the heap
CombinedRegressionRun_init(h, combined_runs, run_label_arg, plot_args_arg) ==
    LET s0 == SetAttr(NewObject("CombinedRegressionRun"), "runs",
                      [t |-> "list", v |-> combined_runs])
        first == h[combined_runs[1]]
        run_label == IF IsNone(run_label_arg) THEN first.d["run_label"].v
                     ELSE run_label_arg.v
        plot_args == IF DOMAIN plot_args_arg = {} THEN first.d["plot_args"].v
                     ELSE plot_args_arg
    IN  IF combined_runs = <<>> /\ (IsNone(run_label_arg) \/ DOMAIN plot_args_arg = {})
        THEN [exc |-> "IndexError", self |-> s0]
        ELSE [exc |-> "", self |-> RegressionRun_init(s0, run_label, plot_args)]

-----------------------------------------------------------------------------
(* Attribute lookup through the heap, CombinedRegressionRun.__getattr__    *)
(* and RegressionRun.get_quantity                                          *)

RECURSIVE Combined_getattr_last(_, _, _, _)
Combined_getattr_last(h, rs, attr, k) ==
    IF k > Len(rs) THEN [exc |-> "AttributeError", h |-> h, val |-> None]
    ELSE LET r == rs[Len(rs) + 1 - k]
             has == GetAttr(h[r], attr)
             got == GetAttr(has.self, attr)
         IN  IF has.exc = "AttributeError"
             THEN Combined_getattr_last([h EXCEPT ![r] = has.self], rs, attr, k + 1)
             ELSE IF has.exc # ""
             THEN [exc |-> has.exc, h |-> [h EXCEPT ![r] = has.self], val |-> None]
             ELSE [exc |-> got.exc, h |-> [h EXCEPT ![r] = got.self], val |-> got.val]

\* the result g of an attribute read on the object h[id], stored in the heap
InHeap(h, id, g) == [exc |-> g.exc, h |-> [h EXCEPT ![id] = g.self], val |-> g.val]

RECURSIVE Combined_getattr(_, _, _, _)
RECURSIVE Combined_hasattr(_, _, _, _, _)
\* if hasattr(r, attr): return getattr(r, attr), for r = rs[k], where has is
\* the outcome of the read that hasattr makes
Combined_hasattr(h, rs, attr, k, has) ==
    IF has.exc = "AttributeError"
    THEN Combined_getattr([h EXCEPT ![rs[k]] = has.self], rs, attr, k + 1)
    ELSE IF has.exc # ""
    THEN [exc |-> has.exc, h |-> [h EXCEPT ![rs[k]] = has.self], val |-> None]
    ELSE InHeap(h, rs[k], GetAttr(has.self, attr))
\* for r in self.runs: if hasattr(r, attr): return getattr(r, attr)
Combined_getattr(h, rs, attr, k) ==
    IF k > Len(rs) THEN [exc |-> "AttributeError", h |-> h, val |-> None]
    ELSE Combined_hasattr(h, rs, attr, k, GetAttr(h[rs[k]], attr))

\* getattr(h[id], name)
GetAttrH(h, id, name) ==
    IF h[id].cls = "CombinedRegressionRun"
    THEN IF name \in DOMAIN h[id].d THEN [exc |-> "", h |-> h, val |-> h[id].d[name]]
         ELSE IF name \in Methods THEN [exc |-> "", h |-> h, val |-> Fn(name)]
         ELSE Combined_getattr(h, h[id].d["runs"].v, name, 1)
    ELSE InHeap(h, id, GetAttr(h[id], name))

\* The functions a caller passes as a quantity:
\*   abs_momentum_residuals  lambda r: np.abs(r.momentum_residuals)
\*   momentum_prediction     lambda r: r.momentum_prediction
QuantityFunctions == {"abs_momentum_residuals", "momentum_prediction"}

\* np.abs of the value g of an attribute read
AbsOf(g) ==
    IF g.exc # "" THEN g
    ELSE IF g.val.t # "ndarray" THEN [exc |-> "TypeError", h |-> g.h, val |-> None]
    ELSE [exc |-> "", h |-> g.h,
          val |-> Arr([i \in DOMAIN g.val.v |-> Abs(g.val.v[i])])]
CallQuantity(h, id, f) ==
    IF f = "momentum_prediction" THEN GetAttrH(h, id, "momentum_prediction")
    ELSE AbsOf(GetAttrH(h, id, "momentum_residuals"))

\* the result g of a read, with the list of the functions that were called
Called(c, g) == [called |-> c, exc |-> g.exc, h |-> g.h, val |-> g.val]

get_quantity_unchecked(h, id, quantity) ==
    IF quantity.t = "function"
    THEN Called(<<<<quantity.v, id>>>>, CallQuantity(h, id, quantity.v))
    ELSE Called(<<>>, GetAttrH(h, id, IF quantity.t = "str" THEN quantity.v ELSE "None"))

get_quantity(h, id, quantity) ==
    IF quantity.t = "str"
    THEN Called(<<>>, GetAttrH(h, id, quantity.v))
    ELSE IF quantity.t = "function"
    THEN Called(<<<<quantity.v, id>>>>, CallQuantity(h, id, quantity.v))
    ELSE [called |-> <<>>, exc |-> "TypeError", h |-> h, val |-> None]

-----------------------------------------------------------------------------
(* tabulate_statistics.  Numbers in a table are rationals [d, n]; a cell   *)
(* is tagged "float" (a number) or "list" (a Python list of numbers).      *)

List(s) == [t |-> "list", v |-> s]
Float(x) == [t |-> "float", v |-> x]

RECURSIVE SumSeq(_)
SumSeq(x) == IF x = <<>> THEN 0 ELSE Head(x) + SumSeq(Tail(x))

\* statistic_map["resolution"]: np.quantile(np.abs(x), 0.68), interpolating
\* linearly between the order statistics around position 0.68 (len(x) - 1)
resolution(x) ==
    LET a == SortSeq([i \in DOMAIN x |-> Abs(x[i])], LAMBDA u, w : u < w)
        pos == 68 * (Len(a) - 1)
        lo == (pos \div 100) + 1
        hi == IF lo < Len(a) THEN lo + 1 ELSE lo
    IN  Div(100 * a[lo] + (pos % 100) * (a[hi] - a[lo]), 100)

\* statistic_map["mean"]: np.mean(x)
mean(x) == Div(SumSeq(x), Len(x))

statistic_map(name, x) == IF name = "resolution" THEN resolution(x) ELSE mean(x)
StatisticNames == {"resolution", "mean"}

\* The functions a caller passes as a statistic: np.max and np.min
StatisticFunctions == {"max", "min"}
CallStatistic(f, x) ==
    LET S == Range(x)
    IN  IF f = "max" THEN Div(CHOOSE u \in S : \A w \in S : w <= u, 1)
        ELSE Div(CHOOSE u \in S : \A w \in S : u <= w, 1)

\* the list `functions`: an entry of statistic_map, the lambda that wraps the
\* result of the one statistic in a list, or the lambda of the comprehension,
\* whose body names the comprehension's variable `stat`
Functions(statistic, n) ==
    IF statistic.t = "str"
    THEN IF statistic.v \in StatisticNames
         THEN Ok([i \in 1..n |-> <<"statistic_map", statistic.v>>])
         ELSE Raise("KeyError")
    ELSE IF statistic.t = "function"
    THEN Ok([i \in 1..n |-> <<"wrapped", statistic.v>>])
    ELSE IF \E i \in DOMAIN statistic.v :
                statistic.v[i].t = "str" /\ statistic.v[i].v \notin StatisticNames
    THEN Raise("KeyError")
    ELSE Ok([i \in DOMAIN statistic.v |->
                IF statistic.v[i].t = "str" THEN <<"statistic_map", statistic.v[i].v>>
                ELSE <<"stat">>])

\* f(x) for an element f of `functions`; stat is the value the
\* comprehension's variable holds when the lambdas run: its last value
CallFunction(f, x, stat) ==
    IF f[1] = "statistic_map" THEN Ok(Float(statistic_map(f[2], x)))
    ELSE IF f[1] = "wrapped" THEN Ok(List(<<CallStatistic(f[2], x)>>))
    ELSE IF stat.t = "function" THEN Ok(Float(CallStatistic(stat.v, x)))
    ELSE Raise("TypeError")

RECURSIVE TabulateData(_, _, _, _, _, _, _, _)
RECURSIVE TabulateCell(_, _, _, _, _, _, _, _)
\* f(r.get_quantity(q)[selection]) for the k-th pair of a row and a run, where
\* g is the outcome of r.get_quantity(q)
TabulateCell(run_list, functions, quantities, selection, stat, k, data, g) ==
    LET i == ((k - 1) \div Len(run_list)) + 1
        c == CallFunction(functions[i], Select(g.val.v, selection), stat)
    IN  IF g.exc # "" THEN [exc |-> g.exc, h |-> g.h, val |-> None]
        ELSE IF g.val.t # "ndarray"
        THEN [exc |-> "TypeError", h |-> g.h, val |-> None]
        ELSE IF c.exc # "" THEN [exc |-> c.exc, h |-> g.h, val |-> None]
        ELSE TabulateData(g.h, run_list, functions, quantities, selection, stat,
                          k + 1, [data EXCEPT ![i] = Append(@, c.val)])
\* for f, q in zip(functions, quantities):
\*     data.append([f(r.get_quantity(q)[selection]) for r in runs])
TabulateData(h, run_list, functions, quantities, selection, stat, k, data) ==
    LET n == Len(run_list)
        i == ((k - 1) \div n) + 1
        j == ((k - 1) % n) + 1
    IN  IF k > Len(data) * n THEN [exc |-> "", h |-> h, val |-> data]
        ELSE TabulateCell(run_list, functions, quantities, selection, stat, k, data,
                          get_quantity(h, run_list[j], quantities[i]))

\* list(zip(*data))
Transposed(data) ==
    IF data = <<>> THEN <<>>
    ELSE [j \in 1..Len(data[1]) |-> [i \in DOMAIN data |-> data[i][j]]]

\* lines 230-234, given the outcome of the loop that fills data
Tabulated(filled, transpose, stat_labels, run_labels, tabulate_args) ==
    IF filled.exc # "" THEN filled
    ELSE [exc |-> "", h |-> filled.h,
          val |-> IF transpose
                  THEN Ext("tabulate", <<Transposed(filled.val), stat_labels,
                                         run_labels, tabulate_args>>)
                  ELSE Ext("tabulate", <<filled.val, run_labels, stat_labels,
                                         tabulate_args>>)]

tabulate_statistics(h, run_list, quantities_arg, stat_labels_arg, statistic, selection, transpose) ==
    LET tabulate_args == Put(Put(NoArgs, "tablefmt", "html"), "floatfmt", ".2f")
        quantities == IF quantities_arg.t = "str" THEN <<quantities_arg>>
                      ELSE quantities_arg.v
        stat_labels == IF stat_labels_arg.t = "str" THEN <<stat_labels_arg.v>>
                       ELSE stat_labels_arg.v
        run_labels == [j \in DOMAIN run_list |-> h[run_list[j]].d["run_label"].v]
        functions == Functions(statistic, Len(quantities))
        stat == IF statistic.t = "list" /\ statistic.v # <<>>
                THEN statistic.v[Len(statistic.v)] ELSE None
        rows == IF Len(functions.val) < Len(quantities) THEN Len(functions.val)
                ELSE Len(quantities)
    IN  IF functions.exc # "" THEN [exc |-> functions.exc, h |-> h, val |-> None]
        ELSE Tabulated(TabulateData(h, run_list, functions.val, quantities, selection,
                                    stat, 1, [i \in 1..rows |-> <<>>]),
                       transpose, stat_labels, run_labels, tabulate_args)

-----------------------------------------------------------------------------
(* analysis.utils.binning.  A binning is the pair (edges, indices) that    *)
(* get_binning returns: the increasing bin edges and, for every event, the *)
(* index of its bin, counted from 0, or Excluded for an event outside the  *)
(* edges.  The per-bin statistics are rationals; the standard error is the *)
(* square root of one.                                                     *)

Excluded == -1
NaN == Div(0, 0)
Binning(edges, indices) == [edges |-> edges, indices |-> indices]
Mask(m) == [t |-> "mask", v |-> m]

RECURSIVE Pick(_, _, _)
\* the entries of v, in order, at the positions where keep holds, from k on
Pick(v, keep, k) ==
    IF k > Len(v) THEN <<>>
    ELSE (IF keep[k] THEN <<v[k]>> ELSE <<>>) \o Pick(v, keep, k + 1)

\* a[selection] for ..., an array of positions or a boolean mask
Narrow(a, selection) ==
    IF selection.t = "mask" THEN Pick(a, selection.v, 1) ELSE Select(a, selection)

apply_binning_ignoring_selection(values, binning, selection) ==
    Ok([b \in 1..(Len(binning.edges) - 1) |->
            Pick(values.v, [i \in DOMAIN binning.indices |-> binning.indices[i] = b - 1], 1)])

\* the selected values grouped by the bin of their event, one group per bin
apply_binning(values, binning, selection) ==
    LET v == Narrow(values.v, selection)
        idx == Narrow(binning.indices, selection)
    IN  IF values.t # "ndarray" THEN Raise("TypeError")
        ELSE IF Len(values.v) # Len(binning.indices) THEN Raise("IndexError")
        ELSE Ok([b \in 1..(Len(binning.edges) - 1) |->
                    Pick(v, [i \in DOMAIN idx |-> idx[i] = b - 1], 1)])

\* per bin: the 68th percentile of the absolute values, the mean, and the
\* standard deviation over sqrt(n); NaN for an empty bin
binned_resolutions(binned_values) ==
    [b \in DOMAIN binned_values |->
        IF binned_values[b] = <<>> THEN NaN ELSE resolution(binned_values[b])]
binned_mean(binned_values) ==
    [b \in DOMAIN binned_values |->
        IF binned_values[b] = <<>> THEN NaN ELSE mean(binned_values[b])]
binned_std_errors(binned_values) ==
    [b \in DOMAIN binned_values |->
        LET x == binned_values[b]
            n == Len(x)
            squares == SumSeq([i \in DOMAIN x |-> x[i] * x[i]])
        IN  IF x = <<>> THEN NaN
            ELSE Ext("sqrt", <<Div(n * squares - SumSeq(x) * SumSeq(x), n * n * n)>>)]

bin_centres(edges) == [b \in 1..(Len(edges) - 1) |-> Div(edges[b] + edges[b + 1], 2)]
bin_halfwidths(edges) == [b \in 1..(Len(edges) - 1) |-> Div(edges[b + 1] - edges[b], 2)]

-----------------------------------------------------------------------------
(* The plotting functions.  A call on the axes is recorded as              *)
(* [args, name, slot, val]: the keyword arguments, the method of the axes, *)
(* the run drawn ("" when none) and the positional data.  The binning      *)
(* helpers of analysis.utils.binning are opaque terms.                     *)

AxesCall(name, slot, val, args) == [args |-> args, name |-> name, slot |-> slot, val |-> val]
Without(d, keys) == [k \in DOMAIN d \ keys |-> d[k]]
SetDefault_replacing(d, k, val) == Put(d, k, val)
SetDefault(d, k, val) == IF k \in DOMAIN d THEN d ELSE Put(d, k, val)

MergeArgs_shared_first(shared, own) ==
    [k \in DOMAIN shared \union DOMAIN own |-> IF k \in DOMAIN shared THEN shared[k] ELSE own[k]]

\* {**shared, **own}
MergeArgs(shared, own) ==
    [k \in DOMAIN shared \union DOMAIN own |-> IF k \in DOMAIN own THEN own[k] ELSE shared[k]]

\* ax.set_xlabel, ax.set_ylabel, ax.legend and ax.set_ylim at the end of a plot
Decorate(legend, y_lim) ==
    <<AxesCall("set_xlabel", "", Str(""), NoArgs), AxesCall("set_ylabel", "", Str(""), NoArgs)>>
        \o (IF IsNone(legend) THEN <<>>
            ELSE <<AxesCall("legend", "", None, Put(NoArgs, "loc", legend.v))>>)
        \o (IF IsNone(y_lim) THEN <<>> ELSE <<AxesCall("set_ylim", "", y_lim, NoArgs)>>)

RECURSIVE HistLoop(_, _, _, _, _, _, _)
RECURSIVE Hist(_, _, _, _, _, _, _)
\* ax.hist(...) for the k-th run, where g is the outcome of
\* r.get_quantity(quantity)
Hist(run_list, quantity, selection, hist_args, k, drawn, g) ==
    IF g.exc # "" THEN [drawn |-> drawn, exc |-> g.exc, h |-> g.h]
    ELSE IF g.val.t # "ndarray" THEN [drawn |-> drawn, exc |-> "TypeError", h |-> g.h]
    ELSE HistLoop(g.h, run_list, quantity, selection, hist_args, k + 1,
                  Append(drawn, AxesCall("hist", run_list[k],
                            Arr(Select(g.val.v, selection)),
                            MergeArgs(hist_args, g.h[run_list[k]].d["plot_args"].v))))
\* for r in runs: ax.hist(r.get_quantity(quantity)[selection].flatten(),
\*                        **{**hist_args, **r.plot_args})
HistLoop(h, run_list, quantity, selection, hist_args, k, drawn) ==
    IF k > Len(run_list) THEN [drawn |-> drawn, exc |-> "", h |-> h]
    ELSE Hist(run_list, quantity, selection, hist_args, k, drawn,
              get_quantity(h, run_list[k], quantity))

\* the labels and the legend that end a plot whose loop ended as `loop`
Decorated(loop, legend, y_lim) ==
    IF loop.exc # "" THEN loop
    ELSE [loop EXCEPT !.drawn = @ \o Decorate(legend, y_lim)]

plot_histograms(h, run_list, quantity, selection, legend, hist_args_arg) ==
    Decorated(HistLoop(h, run_list, quantity, selection,
                       SetDefault(SetDefault(SetDefault(SetDefault(hist_args_arg,
                            "bins", 200), "density", TRUE), "histtype", "step"), "lw", 2),
                       1, <<>>),
              legend, None)

\* RegressionRun.plot_binned_resolution and plot_binned_bias, which differ in
\* the summary of the bins: binned_resolutions or binned_mean
\* lines 295-308 (and 337-350), given the outcome g of self.get_quantity(quantity)
Binned(id, summary, binning, selection, kwargs, g) ==
    LET errors == IF "errors" \in DOMAIN kwargs THEN kwargs["errors"] ELSE FALSE
        x_errors == IF "x_errors" \in DOMAIN kwargs THEN kwargs["x_errors"] ELSE TRUE
        plot_args == SetDefault(Without(kwargs, {"errors", "x_errors"}), "lw", 2)
        binned_values == apply_binning(g.val, binning, selection)
        y == IF summary = "binned_resolutions"
             THEN Arr(binned_resolutions(binned_values.val))
             ELSE Arr(binned_mean(binned_values.val))
        x == Arr(bin_centres(binning.edges))
        y_err == Arr(binned_std_errors(binned_values.val))
        x_err == IF x_errors THEN Arr(bin_halfwidths(binning.edges)) ELSE None
    IN  IF g.exc # "" THEN [drawn |-> <<>>, exc |-> g.exc, h |-> g.h]
        ELSE IF binned_values.exc # ""
        THEN [drawn |-> <<>>, exc |-> binned_values.exc, h |-> g.h]
        ELSE IF errors
        THEN [drawn |-> <<AxesCall("errorbar", id, <<x, y, y_err, x_err>>,
                            SetDefault(SetDefault(SetDefault(plot_args,
                                "marker", ""), "capsize", 4), "capthick", 2))>>,
              exc |-> "", h |-> g.h]
        ELSE [drawn |-> <<AxesCall("plot", id, <<x, y>>, SetDefault(plot_args, "marker", "o"))>>,
              exc |-> "", h |-> g.h]

\* RegressionRun.plot_binned_resolution and plot_binned_bias, which differ in
\* the summary of the bins: binned_resolutions or binned_mean
plot_binned(h, id, summary, quantity, binning, selection, kwargs) ==
    Binned(id, summary, binning, selection, kwargs, get_quantity(h, id, quantity))

RECURSIVE ProfileLoop(_, _, _, _, _, _, _, _, _)
RECURSIVE Profile(_, _, _, _, _, _, _, _, _)
\* the rest of the loop after the k-th run drew as p
Profile(run_list, summary, quantity, binning, selection, plot_args, k, drawn, p) ==
    IF p.exc # "" THEN [drawn |-> drawn, exc |-> p.exc, h |-> p.h]
    ELSE ProfileLoop(p.h, run_list, summary, quantity, binning, selection,
                     plot_args, k + 1, drawn \o p.drawn)
\* for r in runs: r.plot_binned_...(quantity, ax, binning, selection,
\*                                  **{**plot_args, **r.plot_args})
ProfileLoop(h, run_list, summary, quantity, binning, selection, plot_args, k, drawn) ==
    IF k > Len(run_list) THEN [drawn |-> drawn, exc |-> "", h |-> h]
    ELSE Profile(run_list, summary, quantity, binning, selection, plot_args, k, drawn,
                 plot_binned(h, run_list[k], summary, quantity, binning, selection,
                             MergeArgs(plot_args, h[run_list[k]].d["plot_args"].v)))

plot_profile(h, run_list, summary, quantity, binning, selection, legend, y_lim, plot_args) ==
    Decorated(ProfileLoop(h, run_list, summary, quantity, binning, selection,
                          plot_args, 1, <<>>),
              legend, y_lim)

plot_resolution_profile(h, run_list, quantity, binning, selection, legend, y_lim, plot_args) ==
    plot_profile(h, run_list, "binned_resolutions", quantity, binning, selection, legend,
                 y_lim, plot_args)

plot_bias_profile(h, run_list, quantity, binning, selection, legend, y_lim, plot_args) ==
    plot_profile(h, run_list, "binned_mean", quantity, binning, selection, legend, y_lim,
                 plot_args)

-----------------------------------------------------------------------------
(* Inputs *)

Slots == {"a", "b", "c"}
Labels == {0, 1, 2, 3, 7}           \* 7 has no entry in any particle_label_map
TrueMomentumValues == {0, 5}
PlotArgsMenu == {NoArgs, [color |-> "r"], [label |-> "mine", lw |-> 3]}

ParticleLabelMaps ==
    {None,
     Dict(<<<<"muon", 1>>, <<"electron", 2>>>>),
     Dict(<<<<"gamma", 1>>, <<"electron", 1>>>>),
     Dict(<<<<"electron", 1>>, <<"kaon", 2>>>>)}

Index(s) == [t |-> "index", v |-> s]
Arrays(n, S) == {Arr(s) : s \in [1..n -> S]}
TruePositions(n) == Arr([c \in 1..n |-> <<c, c, c>>])
TrueDirections(n) == Arr([c \in 1..n |-> <<0, 0, 1>>])
EventCount(chain, indices) == Len(Select([c \in 1..chain |-> c], indices))

\* Constructor arguments of FitQun1RingFit: every labelling under every map
\* without ground truth, and every combination of ground truth for a few
\* labellings under the default map.
FitQunArgs ==
    UNION {
        [fitqun_output : {[t |-> "fitqun_output", v |-> chain]},
         indices : {Ellipsis},
         particle_label_map : {None},
         plot_args : {NoArgs}, run_label : {"fiTQun"},
         true_directions : {None},
         true_labels : {None} \union {PyInt(l) : l \in Labels} \union Arrays(chain, Labels),
         true_momenta : {None}, true_positions : {None}]
          \union
        [fitqun_output : {[t |-> "fitqun_output", v |-> chain]},
         indices : {Ellipsis},
         particle_label_map : ParticleLabelMaps,
         plot_args : {NoArgs}, run_label : {"fiTQun"},
         true_directions : {None},
         true_labels : {PyInt(1), PyInt(2), Arr([c \in 1..chain |-> c])},
         true_momenta : {None}, true_positions : {None}]
        : chain \in 1..MaxEvents}
    \union UNION {
        LET n == EventCount(chain, indices)
        IN  [fitqun_output : {[t |-> "fitqun_output", v |-> chain]},
             indices : {indices},
             particle_label_map : {None},
             plot_args : PlotArgsMenu, run_label : {"fiTQun"},
             true_directions : {None, TrueDirections(n)},
             true_labels : {PyInt(1), PyInt(7), Arr([c \in 1..n |-> c])},
             true_momenta : {None} \union Arrays(n, TrueMomentumValues),
             true_positions : {None, TruePositions(n)}]
        : chain \in 1..MaxEvents, indices \in {Ellipsis, Index(<<1>>)}}

\* Constructor arguments of the WatChMaL variants, each with the ground truth
\* its capability takes.
WatChMaLArgs ==
    UNION {
        [cls : {"WatChMaLPositionRegression"},
         directory : {[t |-> "directory", v |-> n]},
         plot_args : PlotArgsMenu, run_label : {"ResNet"},
         true_directions : {None, TrueDirections(n)},
         true_labels : {None}, true_momenta : {None},
         true_positions : {None, TruePositions(n)}]
          \union
        [cls : {"WatChMaLDirectionRegression"},
         directory : {[t |-> "directory", v |-> n]},
         plot_args : PlotArgsMenu, run_label : {"ResNet"},
         true_directions : {None, TrueDirections(n)},
         true_labels : {None}, true_momenta : {None}, true_positions : {None}]
          \union
        [cls : {"WatChMaLEnergyRegression"},
         directory : {[t |-> "directory", v |-> n]},
         plot_args : PlotArgsMenu, run_label : {"ResNet"},
         true_directions : {None},
         true_labels : {None, Arr([c \in 1..n |-> 2]), Arr([c \in 1..n |-> 7])},
         true_momenta : {None} \union Arrays(n, TrueMomentumValues),
         true_positions : {None}]
        : n \in 1..MaxEvents}

\* the names looked up through get_quantity
AttributeNames ==
    {"momentum_prediction", "position_prediction", "direction_prediction",
     "energy_prediction", "predictions",
     "momentum_residuals", "momentum_fractional_errors", "x_residuals",
     "direction_errors", "run_label", "foo"}

QuantityArgs ==
    {Str(a) : a \in AttributeNames} \union {Fn(f) : f \in QuantityFunctions}
        \union {PyInt(3), None}

-----------------------------------------------------------------------------
(* Operations on one run *)

NoOp == [name |-> "start"]

Init ==
    /\ runs = [s \in Slots |-> NoRun]
    /\ op = NoOp
    /\ ret = Ok(None)
    /\ calls = <<>>
    /\ renders = <<>>

\* An exception that escapes a constructor ends the session.
Crashed == ret.exc # "" /\ op.name \notin {"get_quantity", "getattr", "tabulate_statistics",
                                       "plot_histograms", "plot_resolution_profile",
                                       "plot_bias_profile", "plot_binned_resolution",
                                       "plot_binned_bias"}

Bind(slot, name, args, r) ==
    /\ ~Crashed
    /\ runs[slot] = NoRun
    /\ op' = [args |-> args, name |-> name, slot |-> slot]
    /\ ret' = IF r.exc = "" THEN Ok(None) ELSE Raise(r.exc)
    /\ runs' = IF r.exc = "" THEN [runs EXCEPT ![slot] = r.self] ELSE runs
    /\ calls' = <<>>
    /\ UNCHANGED renders

\* slot = FitQun1RingFit(**a)
NewFitQun1RingFit(slot, a) ==
    Bind(slot, "FitQun1RingFit", a,
         FitQun1RingFit_init(a.fitqun_output, a.run_label, a.true_positions,
                             a.true_directions, a.true_momenta, a.true_labels,
                             a.indices, a.particle_label_map, a.plot_args))

\* slot = WatChMaL{Position,Direction,Energy}Regression(**a)
NewWatChMaLRegression(slot, a) ==
    Bind(slot, a.cls, a,
         CASE a.cls = "WatChMaLPositionRegression" ->
                WatChMaLPositionRegression_init(a.directory, a.run_label, a.true_positions,
                                                a.true_directions, None, a.plot_args)
           [] a.cls = "WatChMaLDirectionRegression" ->
                WatChMaLDirectionRegression_init(a.directory, a.run_label,
                                                 a.true_directions, None, None, a.plot_args)
           [] a.cls = "WatChMaLEnergyRegression" ->
                WatChMaLEnergyRegression_init(a.directory, a.run_label, a.true_momenta,
                                              a.true_labels, None, a.plot_args))

\* del slot
Discard(slot) ==
    /\ runs[slot] # NoRun
    /\ runs' = [runs EXCEPT ![slot] = NoRun]
    /\ op' = [name |-> "del", slot |-> slot]
    /\ ret' = Ok(None)
    /\ calls' = <<>>
    /\ UNCHANGED renders

SourceReads(o) == {o.io[k] : k \in DOMAIN o.io} \union {o.fills[k] : k \in DOMAIN o.fills}

\* the session after a call ended as r: the heap, what the call returned or
\* raised, and the quantity functions that ran
Returns(r) ==
    /\ runs' = r.h
    /\ ret' = [exc |-> r.exc, val |-> r.val]
    /\ calls' = r.called

\* runs[slot].get_quantity(quantity)
GetQuantity(slot, quantity) ==
    /\ runs[slot] # NoRun
    /\ \A s \in Slots : runs[s] # NoRun => \A c \in SourceReads(runs[s]) : c < MaxReads
    /\ Returns(get_quantity(runs, slot, quantity))
    /\ op' = [name |-> "get_quantity", quantity |-> quantity, slot |-> slot]
    /\ UNCHANGED renders

Next ==
    \/ \E a \in FitQunArgs : NewFitQun1RingFit("a", a)
    \/ \E a \in WatChMaLArgs : NewWatChMaLRegression("a", a)
    \/ Discard("a")
    \/ \E q \in QuantityArgs : GetQuantity("a", q)

Spec == Init /\ [][Next]_vars

-----------------------------------------------------------------------------
(* Operations on a combined run: two runs in slots "a" and "b", built in   *)
(* that order, and a CombinedRegressionRun over a list of them in "c"      *)

BaseFitQunArgs ==
    [fitqun_output : {[t |-> "fitqun_output", v |-> MaxEvents]},
     indices : {Ellipsis},
     particle_label_map : {None},
     plot_args : {NoArgs}, run_label : {"fiTQun"},
     true_directions : {None},
     true_labels : {PyInt(1), Arr([c \in 1..MaxEvents |-> c])},
     true_momenta : {None, Arr([c \in 1..MaxEvents |-> 5])},
     true_positions : {None}]

BaseWatChMaLArgs ==
    [cls : {"WatChMaLPositionRegression"},
     directory : {[t |-> "directory", v |-> MaxEvents]},
     plot_args : {[color |-> "r"]}, run_label : {"ResNet"},
     true_directions : {None},
     true_labels : {None}, true_momenta : {None},
     true_positions : {None, TruePositions(MaxEvents)}]
      \union
    [cls : {"WatChMaLEnergyRegression"},
     directory : {[t |-> "directory", v |-> MaxEvents]},
     plot_args : {[color |-> "r"]}, run_label : {"ResNet"},
     true_directions : {None},
     true_labels : {None, Arr([c \in 1..MaxEvents |-> 2])},
     true_momenta : {None, Arr([c \in 1..MaxEvents |-> 5])},
     true_positions : {None}]

CombinedLists == {<<>>, <<"a">>, <<"a", "b">>, <<"b", "a">>}
CombinedArgs ==
    [combined_runs : CombinedLists, plot_args : {NoArgs}, run_label : {None}]
        \union
    [combined_runs : CombinedLists, plot_args : {[lw |-> 3]}, run_label : {Str("both")}]

CombinedNames ==
    {"momentum_prediction", "position_prediction", "momentum_residuals",
     "momentum_fractional_errors", "x_residuals", "run_label", "plot_args", "runs",
     "get_quantity", "foo"}

\* slot = CombinedRegressionRun(**a)
NewCombinedRegressionRun(slot, a) ==
    /\ \A r \in Range(a.combined_runs) : runs[r] # NoRun
    /\ Bind(slot, "CombinedRegressionRun", a,
            CombinedRegressionRun_init(runs, a.combined_runs, a.run_label, a.plot_args))

\* getattr(runs[slot], attr)
GetAttribute(slot, attr) ==
    /\ runs[slot] # NoRun
    /\ \A s \in Slots : runs[s] # NoRun => \A c \in SourceReads(runs[s]) : c < MaxReads
    /\ Returns(Called(<<>>, GetAttrH(runs, slot, attr)))
    /\ op' = [attr |-> attr, name |-> "getattr", slot |-> slot]
    /\ UNCHANGED renders

NextCombined ==
    \/ \E a \in BaseFitQunArgs : NewFitQun1RingFit("a", a)
    \/ \E a \in BaseWatChMaLArgs : NewWatChMaLRegression("a", a)
    \/ \E a \in BaseFitQunArgs : runs["a"] # NoRun /\ NewFitQun1RingFit("b", a)
    \/ \E a \in BaseWatChMaLArgs : runs["a"] # NoRun /\ NewWatChMaLRegression("b", a)
    \/ \E a \in CombinedArgs : runs["b"] # NoRun /\ NewCombinedRegressionRun("c", a)
    \/ \E attr \in CombinedNames : GetAttribute("c", attr)
    \/ \E attr \in CombinedNames : GetQuantity("c", Str(attr))

SpecCombined == Init /\ [][NextCombined]_vars

-----------------------------------------------------------------------------
(* Tables: a FitQun1RingFit run in slot "a", a WatChMaLEnergyRegression    *)
(* run in slot "b", and calls of tabulate_statistics on them               *)

TabFitQunArgs ==
    [fitqun_output : {[t |-> "fitqun_output", v |-> MaxEvents]},
     indices : {Ellipsis},
     particle_label_map : {None},
     plot_args : {NoArgs}, run_label : {"fiTQun"},
     true_directions : {None},
     true_labels : {PyInt(1)},
     true_momenta : {None, Arr([c \in 1..MaxEvents |-> 7])},
     true_positions : {None}]

TabWatChMaLArgs ==
    [cls : {"WatChMaLEnergyRegression"},
     directory : {[t |-> "directory", v |-> MaxEvents]},
     plot_args : {[color |-> "r"]}, run_label : {"ResNet"},
     true_directions : {None},
     true_labels : {Arr([c \in 1..MaxEvents |-> 2])},
     true_momenta : {None, Arr([c \in 1..MaxEvents |-> 5])},
     true_positions : {None}]

TabQuantities == {Str("momentum_prediction"), Str("momentum_residuals")}
TabStatistics ==
    {Str(n) : n \in StatisticNames} \union {Fn(f) : f \in StatisticFunctions}
StatLabels(m) == [i \in 1..m |-> <<"stat", i>>]

\* Arguments of tabulate_statistics: one quantity by name with one statistic,
\* or a list of quantities with one statistic or a list of as many
TabulateArgs ==
    [quantities : TabQuantities, run_list : {<<"a">>, <<"a", "b">>},
     selection : {Ellipsis, Index(<<1>>)}, stat_labels : {Str("stat")},
     statistic : TabStatistics, transpose : BOOLEAN]
        \union UNION {
    [quantities : {List(q) : q \in [1..m -> TabQuantities]},
     run_list : {<<"a">>, <<"a", "b">>},
     selection : {Ellipsis, Index(<<1>>)}, stat_labels : {List(StatLabels(m))},
     statistic : TabStatistics \union {List(f) : f \in [1..m -> TabStatistics]},
     transpose : BOOLEAN] : m \in 1..MaxQuantities}

\* the caller lets go of what the last call returned
Drop ==
    /\ op.name \in {"tabulate_statistics", "plot_histograms", "plot_resolution_profile",
                    "plot_bias_profile", "plot_binned_resolution", "plot_binned_bias"}
    /\ op' = NoOp
    /\ ret' = Ok(None)
    /\ calls' = <<>>
    /\ renders' = <<>>
    /\ UNCHANGED runs

\* tabulate_statistics(**a), once the result of a previous call is dropped
Tabulate(a) ==
    /\ op.name # "tabulate_statistics"
    /\ runs["a"] # NoRun /\ runs["b"] # NoRun
    /\ \A s \in Slots : runs[s] # NoRun => \A c \in SourceReads(runs[s]) : c < MaxReads
    /\ Returns(Called(<<>>, tabulate_statistics(runs, a.run_list, a.quantities,
                                                a.stat_labels, a.statistic, a.selection,
                                                a.transpose)))
    /\ op' = [name |-> "tabulate_statistics", quantities |-> a.quantities,
              run_list |-> a.run_list, selection |-> a.selection,
              stat_labels |-> a.stat_labels, statistic |-> a.statistic,
              transpose |-> a.transpose]
    /\ UNCHANGED renders

NextTab ==
    \/ \E a \in TabFitQunArgs : NewFitQun1RingFit("a", a)
    \/ \E a \in TabWatChMaLArgs : NewWatChMaLRegression("b", a)
    \/ \E a \in TabulateArgs : Tabulate(a)
    \/ Drop

SpecTab == Init /\ [][NextTab]_vars

-----------------------------------------------------------------------------
(* Plots: a FitQun1RingFit run in slot "a", a WatChMaLEnergyRegression run *)
(* in slot "b", each with its own style, and calls of the plotting         *)
(* functions on them with a fresh pair of axes                             *)

PlotFitQunArgs ==
    [fitqun_output : {[t |-> "fitqun_output", v |-> MaxEvents]},
     indices : {Ellipsis},
     particle_label_map : {None},
     plot_args : PlotArgsMenu, run_label : {"fiTQun"},
     true_directions : {None},
     true_labels : {PyInt(1)},
     true_momenta : {None},
     true_positions : {None}]

PlotWatChMaLArgs ==
    [cls : {"WatChMaLEnergyRegression"},
     directory : {[t |-> "directory", v |-> MaxEvents]},
     plot_args : PlotArgsMenu \union {Put([lw |-> 3], "errors", TRUE)},
     run_label : {"ResNet"},
     true_directions : {None},
     true_labels : {Arr([c \in 1..MaxEvents |-> 2])},
     true_momenta : {None},
     true_positions : {None}]

\* the shared keyword arguments of a plotting call
SharedArgsMenu ==
    {NoArgs, [color |-> "k", lw |-> 1], Put([color |-> "k"], "bins", 50),
     Put(Put([lw |-> 1], "errors", TRUE), "x_errors", FALSE)}

PlotFunctions == {"plot_histograms", "plot_resolution_profile", "plot_bias_profile"}

PlotArgs ==
    [hist_args : SharedArgsMenu, legend : {Str("best"), None},
     quantity : {Str("momentum_prediction"), Fn("momentum_prediction"), Str("foo")},
     run_list : {<<"a">>, <<"a", "b">>, <<"b", "a">>},
     selection : {Ellipsis, Index(<<1>>)}]

\* the binning of the MaxEvents events of the runs that the profiles share
PlotBinning == Binning(<<0, 10, 20>>, [c \in 1..MaxEvents |-> c % 2])

\* the session after a plotting function ended as r: the figure and its axes
\* are returned and the calls made on the axes are kept
Draws(r) ==
    /\ runs' = r.h
    /\ ret' = IF r.exc = "" THEN Ok(Ext("fig, ax", <<>>)) ELSE Raise(r.exc)
    /\ renders' = r.drawn

\* f(runs, quantity, [binning,] selection, legend=legend, **hist_args)
Plot(f, a) ==
    /\ op.name \notin PlotFunctions
    /\ runs["a"] # NoRun /\ runs["b"] # NoRun
    /\ \A s \in Slots : runs[s] # NoRun => \A c \in SourceReads(runs[s]) : c < MaxReads
    /\ Draws(CASE f = "plot_histograms" ->
                    plot_histograms(runs, a.run_list, a.quantity, a.selection,
                                    a.legend, a.hist_args)
               [] f = "plot_resolution_profile" ->
                    plot_resolution_profile(runs, a.run_list, a.quantity,
                                            PlotBinning, a.selection,
                                            a.legend, None, a.hist_args)
               [] f = "plot_bias_profile" ->
                    plot_bias_profile(runs, a.run_list, a.quantity,
                                      PlotBinning, a.selection,
                                      a.legend, None, a.hist_args))
    /\ op' = [args |-> a, name |-> f]
    /\ calls' = <<>>

PlotHistograms(a) == Plot("plot_histograms", a)
PlotResolutionProfile(a) == Plot("plot_resolution_profile", a)
PlotBiasProfile(a) == Plot("plot_bias_profile", a)

NextPlot ==
    \/ \E a \in PlotFitQunArgs : NewFitQun1RingFit("a", a)
    \/ \E a \in PlotWatChMaLArgs : NewWatChMaLRegression("b", a)
    \/ \E a \in PlotArgs : PlotHistograms(a)
    \/ \E a \in PlotArgs : PlotResolutionProfile(a)
    \/ \E a \in PlotArgs : PlotBiasProfile(a)
    \/ Drop

SpecPlot == Init /\ [][NextPlot]_vars

-----------------------------------------------------------------------------
(* The binned-plot helpers called directly on a run in slot "a" or "b",    *)
(* with a fresh pair of axes                                               *)

BinnedFitQunArgs ==
    [fitqun_output : {[t |-> "fitqun_output", v |-> MaxEvents]},
     indices : {Ellipsis},
     particle_label_map : {None},
     plot_args : {NoArgs}, run_label : {"fiTQun"},
     true_directions : {None},
     true_labels : {PyInt(1)},
     true_momenta : {None, Arr([c \in 1..MaxEvents |-> 9 * (c % 2)])},
     true_positions : {None}]

BinnedWatChMaLArgs ==
    [cls : {"WatChMaLEnergyRegression"},
     directory : {[t |-> "directory", v |-> MaxEvents]},
     plot_args : {[lw |-> 3]},
     run_label : {"ResNet"},
     true_directions : {None},
     true_labels : {Arr([c \in 1..MaxEvents |-> 2])},
     true_momenta : {None},
     true_positions : {None}]

BinnedFunctions == {"plot_binned_resolution", "plot_binned_bias"}

\* the keyword arguments of a call: errors, x_errors and style options
KwargsMenu ==
    {NoArgs, [lw |-> 3], Put(NoArgs, "marker", "x"), Put(NoArgs, "x_errors", FALSE),
     Put(NoArgs, "errors", TRUE), Put(Put(NoArgs, "errors", TRUE), "x_errors", FALSE),
     Put(Put(Put(Put([lw |-> 3], "marker", "x"), "capsize", 0), "capthick", 1),
         "errors", TRUE)}

BinnedArgs ==
    [binning : {Binning(<<0, 10, 20>>, [c \in 1..MaxEvents |-> idx[((c - 1) % 2) + 1]]) :
                    idx \in {<<0, 0>>, <<1, 0>>, <<Excluded, 1>>}},
     kwargs : KwargsMenu,
     quantity : {Str("momentum_prediction"), Str("momentum_residuals"),
                 Str("run_label"), Str("foo")},
     selection : {Ellipsis, Index(<<1>>), Mask([c \in 1..MaxEvents |-> c # 1])}]

\* the session after a helper ended as r: it returns nothing and the calls
\* made on the axes are kept
Rendered(r) ==
    /\ runs' = r.h
    /\ ret' = IF r.exc = "" THEN Ok(None) ELSE Raise(r.exc)
    /\ renders' = r.drawn

\* runs[slot].f(quantity, ax, binning, selection, **kwargs)
PlotBinned(slot, f, a) ==
    /\ op.name \notin BinnedFunctions
    /\ runs[slot] # NoRun
    /\ \A s \in Slots : runs[s] # NoRun => \A c \in SourceReads(runs[s]) : c < MaxReads
    /\ Rendered(plot_binned(runs, slot,
                            IF f = "plot_binned_resolution" THEN "binned_resolutions"
                            ELSE "binned_mean",
                            a.quantity, a.binning, a.selection, a.kwargs))
    /\ op' = [args |-> a, name |-> f, slot |-> slot]
    /\ calls' = <<>>

PlotBinnedResolution(slot, a) == PlotBinned(slot, "plot_binned_resolution", a)
PlotBinnedBias(slot, a) == PlotBinned(slot, "plot_binned_bias", a)

NextBinned ==
    \/ \E a \in BinnedFitQunArgs : NewFitQun1RingFit("a", a)
    \/ \E a \in BinnedWatChMaLArgs : NewWatChMaLRegression("b", a)
    \/ \E slot \in {"a", "b"}, a \in BinnedArgs : PlotBinnedResolution(slot, a)
    \/ \E slot \in {"a", "b"}, a \in BinnedArgs : PlotBinnedBias(slot, a)
    \/ Drop

SpecBinned == Init /\ [][NextBinned]_vars

-----------------------------------------------------------------------------
(* A session with a FitQun1RingFit run in slot "a", a WatChMaL run in slot *)
(* "b" and a CombinedRegressionRun over them in slot "c", each with its    *)
(* own style, followed by calls of the plotting functions and of           *)
(* tabulate_statistics on lists of runs that hold the combined run         *)

SessionFitQunArgs ==
    [fitqun_output : {[t |-> "fitqun_output", v |-> MaxEvents]},
     indices : {Ellipsis},
     particle_label_map : {None},
     plot_args : PlotArgsMenu, run_label : {"fiTQun"},
     true_directions : {None},
     true_labels : {PyInt(1)},
     true_momenta : {None},
     true_positions : {None}]

SessionWatChMaLArgs ==
    [cls : {"WatChMaLEnergyRegression"},
     directory : {[t |-> "directory", v |-> MaxEvents]},
     plot_args : PlotArgsMenu, run_label : {"ResNet"},
     true_directions : {None},
     true_labels : {Arr([c \in 1..MaxEvents |-> 2])},
     true_momenta : {None},
     true_positions : {None}]

SessionCombinedArgs ==
    [combined_runs : {<<"a">>, <<"a", "b">>, <<"b", "a">>},
     plot_args : {NoArgs, [lw |-> 1], [label |-> "mine"]},
     run_label : {None, Str("both")}]

SessionRunLists == {<<"c">>, <<"a", "c">>, <<"c", "b">>}

SessionPlotArgs ==
    [hist_args : {NoArgs, [color |-> "k", lw |-> 1]}, legend : {Str("best")},
     quantity : {Str("momentum_prediction"), Str("foo")},
     run_list : SessionRunLists,
     selection : {Ellipsis}]

SessionTabulateArgs ==
    [quantities : {Str("momentum_prediction")}, run_list : SessionRunLists,
     selection : {Ellipsis}, stat_labels : {Str("stat")},
     statistic : {Str("mean"), Fn("max")}, transpose : BOOLEAN]

\* the three runs exist and the result of the last call is dropped
Ready == runs["c"] # NoRun /\ op.name \notin PlotFunctions \union {"tabulate_statistics"}

NextSession ==
    \/ \E a \in SessionFitQunArgs : NewFitQun1RingFit("a", a)
    \/ \E a \in SessionWatChMaLArgs : runs["a"] # NoRun /\ NewWatChMaLRegression("b", a)
    \/ \E a \in SessionCombinedArgs : runs["b"] # NoRun /\ NewCombinedRegressionRun("c", a)
    \/ \E a \in SessionPlotArgs : Ready /\ PlotHistograms(a)
    \/ \E a \in SessionPlotArgs : Ready /\ PlotResolutionProfile(a)
    \/ \E a \in SessionPlotArgs : Ready /\ PlotBiasProfile(a)
    \/ \E a \in SessionTabulateArgs : Ready /\ Tabulate(a)
    \/ Drop

SpecSession == Init /\ [][NextSession]_vars

-----------------------------------------------------------------------------
(* apply_binning on its own: every array of values with a binning of its   *)
(* events and a selection                                                  *)

BinEdges == {<<0, 2>>, <<0, 2, 4>>}
BinValues == {5, 7}

Selections(n) ==
    {Ellipsis} \union {Mask(m) : m \in [1..n -> BOOLEAN]}
        \union {Index(s) : s \in {t \in {<<1>>, <<1, 1>>, <<2, 1>>} : Range(t) \subseteq 1..n}}

BinningArgs ==
    UNION {[binning : {Binning(edges, idx) :
                        idx \in [1..n -> {Excluded} \union 0..(Len(edges) - 2)]},
            selection : Selections(n),
            values : Arrays(n, BinValues)]
           : n \in 0..MaxValues, edges \in BinEdges}

InitBinning ==
    /\ runs = [s \in Slots |-> NoRun]
    /\ \E a \in BinningArgs : op = [args |-> a, name |-> "input"]
    /\ ret = Ok(None)
    /\ calls = <<>>
    /\ renders = <<>>

\* bins.apply_binning(values, binning, selection)
ApplyBinning ==
    /\ op.name = "input"
    /\ op' = [args |-> op.args, name |-> "apply_binning"]
    /\ ret' = apply_binning(op.args.values, op.args.binning, op.args.selection)
    /\ UNCHANGED <<runs, calls, renders>>

NextBinning == ApplyBinning

SpecBinning == InitBinning /\ [][NextBinning]_vars

-----------------------------------------------------------------------------
(* Properties of a single run                                              *)

Run == runs["a"]
Constructors == {"FitQun1RingFit"} \union WatChMaLClasses
IsRead(name) == op.name = "get_quantity" /\ op.quantity = Str(name)

\* the particle types a label map gives label l
TypesOf(map, l) == {e[1] : e \in {x \in Range(map) : x[2] = l}}

\* every event's label has a particle type, and every such type a hypothesis
AllMapped(r, q) ==
    \A i \in DOMAIN r.d["true_labels"].v :
        LET types == TypesOf(r.d["particle_label_map"].v, r.d["true_labels"].v[i])
        IN  types # {} /\ types \subseteq DOMAIN r.d[MapName(q)].v

\* C3: reading a unified prediction of a FitQun1RingFit run whose labels are
\* all mapped gives an array of n_events entries in which entry i is entry i
\* of the hypothesis array configured for the particle type of event i.
C3_UnifiedPrediction ==
    \A q \in Quantities :
        (IsRead(PropName(q)) /\ Run.cls = "FitQun1RingFit" /\ AllMapped(Run, q)) =>
            /\ ret.exc = ""
            /\ ret.val.t = "ndarray"
            /\ Len(ret.val.v) = Run.d["n_events"].v
            /\ \A i \in 1..Run.d["n_events"].v :
                 \A p \in TypesOf(Run.d["particle_label_map"].v, Run.d["true_labels"].v[i]) :
                    ret.val.v[i] = CallLambda(Run, Run.d[MapName(q)].v[p])[i]

\* C10: reading a unified prediction of a FitQun1RingFit run in which some
\* event's label is unmapped, or mapped to a type without hypothesis, fails;
\* no array is returned.
C10_UnmappedLabelFails ==
    \A q \in Quantities :
        (IsRead(PropName(q)) /\ Run.cls = "FitQun1RingFit" /\ ~AllMapped(Run, q)) =>
            ret.exc # ""

\* the derived quantities of a capability and the ground truth each needs
DerivedQuantities(q) ==
    CASE q = "momentum" -> {"momentum_residuals", "momentum_fractional_errors",
                            "energy_residuals", "energy_fractional_errors"}
      [] q = "position" -> {"position_residuals", "x_residuals", "y_residuals",
                            "z_residuals", "position_3d_errors",
                            "position_longitudinal_errors", "position_transverse_errors"}
      [] q = "direction" -> {"direction_errors"}
TruthNeeded(name) ==
    CASE name \in {"momentum_residuals", "momentum_fractional_errors"} -> {"true_momenta"}
      [] name \in {"energy_residuals", "energy_fractional_errors"} ->
            {"true_momenta", "true_labels"}
      [] name \in {"position_longitudinal_errors", "position_transverse_errors"} ->
            {"true_positions", "true_directions"}
      [] name = "direction_errors" -> {"true_directions"}
      [] OTHER -> {"true_positions"}
AllTruth == {"true_momenta", "true_labels", "true_positions", "true_directions"}

\* C4: a constructor called without a ground truth still constructs the run,
\* and every derived quantity that needs the missing truth reads as None.
C4_AbsentTruthYieldsNone ==
    op.name \in Constructors =>
        /\ (\A t \in AllTruth : IsNone(op.args[t])) => ret.exc = ""
        /\ ret.exc = "" =>
             \A q \in {x \in Quantities : HasPrediction(op.name, x)} :
                \A name \in DerivedQuantities(q) :
                    (\E t \in TruthNeeded(name) : IsNone(op.args[t])) =>
                        /\ GetAttr(Run, name).exc = ""
                        /\ IsNone(GetAttr(Run, name).val)

\* C9: with the ground truth supplied, the stored residuals are prediction
\* minus truth per event, the fractional errors are residual over truth, the
\* x, y, z residuals are the components of the position residuals, and all
\* have the events of the prediction in its order.
C9_Residuals ==
    Run # NoRun =>
        /\ (HasPrediction(Run.cls, "momentum") /\ ~IsNone(Run.d["true_momenta"])) =>
             LET pred == Prediction(Run, "momentum").val.v
                 truth == Run.d["true_momenta"].v
                 res == Run.d["momentum_residuals"].v
                 frac == Run.d["momentum_fractional_errors"].v
             IN  /\ DOMAIN res = DOMAIN pred /\ DOMAIN frac = DOMAIN pred
                 /\ \A i \in DOMAIN pred :
                      /\ res[i] = pred[i] - truth[i]
                      /\ truth[i] # 0 =>
                            /\ frac[i].d > 0
                            /\ frac[i].n * truth[i] = res[i] * frac[i].d
                            /\ GCD(Abs(frac[i].n), frac[i].d) = 1
                      /\ truth[i] = 0 => frac[i].d = 0 /\ frac[i].n = Sign(res[i])
        /\ (HasPrediction(Run.cls, "position") /\ ~IsNone(Run.d["true_positions"])) =>
             LET pred == Prediction(Run, "position").val.v
                 truth == Run.d["true_positions"].v
                 res == Run.d["position_residuals"].v
             IN  /\ DOMAIN res = DOMAIN pred
                 /\ \A i \in DOMAIN pred :
                      /\ \A k \in 1..3 : res[i][k] = pred[i][k] - truth[i][k]
                      /\ Run.d["x_residuals"].v[i] = res[i][1]
                      /\ Run.d["y_residuals"].v[i] = res[i][2]
                      /\ Run.d["z_residuals"].v[i] = res[i][3]
                 /\ \A c \in {"x_residuals", "y_residuals", "z_residuals"} :
                      DOMAIN Run.d[c].v = DOMAIN pred

\* a FitQun1RingFit run of MaxEvents events built with true momenta, one of
\* them zero, and true positions
C9_Witness ==
    /\ Run.cls = "FitQun1RingFit"
    /\ Run.d["n_events"].v = MaxEvents
    /\ ~IsNone(Run.d["true_positions"])
    /\ ~IsNone(Run.d["true_momenta"])
    /\ 0 \in Range(Run.d["true_momenta"].v)
    /\ \E i \in DOMAIN Run.d["momentum_residuals"].v : Run.d["momentum_residuals"].v[i] > 0

\* the attribute in which a run caches the prediction accessor `name`
CacheOf(cls, name) ==
    IF cls = "FitQun1RingFit"
    THEN CacheName(CHOOSE q \in Quantities : PropName(q) = name)
    ELSE IF name \in {"predictions", "position_prediction"} THEN "_predictions"
    ELSE IF name = "direction_prediction" THEN "_direction_prediction"
    ELSE "_momentum_prediction"
Accessors(cls) == Properties(cls) \ {"energy_prediction"}
IsAccess(o, name) ==
    /\ o.name = "get_quantity"
    /\ o.quantity \in {Str(name)} \union
            (IF name = "momentum_prediction" THEN {Fn("momentum_prediction")} ELSE {})

C7_Step ==
    /\ \A s \in Slots :
         /\ runs'[s].cls = "FitQun1RingFit" =>
                \A q \in Quantities : Count(runs'[s].fills, q) <= 1
         /\ runs'[s].cls \in WatChMaLClasses =>
                Count(runs'[s].io, <<"outputs", "predictions">>) <= 1
    /\ \A s \in Slots : runs[s].cls \in Constructors =>
         \A name \in Accessors(runs[s].cls) :
            (IsAccess(op', name) /\ op'.slot = s) =>
                LET cache == CacheOf(runs[s].cls, name)
                IN  /\ ret'.exc = "" => ret'.val = runs'[s].d[cache]
                    /\ ~IsNone(runs[s].d[cache]) =>
                            /\ ret' = Ok(runs[s].d[cache])
                            /\ runs' = runs

\* C7: no unified prediction of a FitQun1RingFit run is built more than
\* once and the outputs of a WatChMaL run are read at most once; a successful
\* access returns the array the run then caches, and every access made once
\* the cache is filled returns the cached array and leaves the run as it is.
C7_ComputedOnce == [][C7_Step]_vars

\* a second successful read of momentum_prediction on a FitQun1RingFit run
\* that built the prediction when it was constructed
C7_Witness ==
    /\ IsAccess(op, "momentum_prediction")
    /\ Run.cls = "FitQun1RingFit"
    /\ ret.exc = ""
    /\ ~IsNone(Run.d["momentum_residuals"])
    /\ Count(Run.fills, "momentum") = 1

\* the instance attributes that hold a lazily computed prediction
CacheAttrs ==
    {"_momentum_prediction", "_position_prediction", "_direction_prediction", "_predictions"}

\* what get_quantity returns and whom it calls
C8_Outcome ==
    LET q == op'.quantity
        slot == op'.slot
    IN  /\ q.t = "str" =>
              LET g == GetAttrH(runs, slot, q.v)
              IN  ret' = [exc |-> g.exc, val |-> g.val] /\ calls' = <<>>
        /\ q.t = "function" =>
              LET g == CallQuantity(runs, slot, q.v)
              IN  ret' = [exc |-> g.exc, val |-> g.val] /\ calls' = <<<<q.v, slot>>>>
        /\ q.t \notin {"str", "function"} => ret'.exc = "TypeError" /\ calls' = <<>>

\* C8 as stated: get_quantity gives the attribute, or q(run) with q called
\* once, or a type error, and changes nothing stored on the run.
C8_ChangesNothing ==
    [][op'.name = "get_quantity" =>
            /\ C8_Outcome
            /\ \A s \in Slots : runs'[s] # NoRun => runs'[s].d = runs[s].d]_vars

\* C8: get_quantity gives the attribute, or q(run) with q called once, or a
\* type error; it leaves the label, the style options and every stored
\* attribute as they were, except that a lazily computed prediction it reads
\* is cached on the run.
C8_ChangesOnlyCaches ==
    [][op'.name = "get_quantity" =>
            /\ C8_Outcome
            /\ \A s \in Slots : runs'[s] # NoRun =>
                 /\ DOMAIN runs'[s].d = DOMAIN runs[s].d
                 /\ \A k \in DOMAIN runs[s].d \ CacheAttrs : runs'[s].d[k] = runs[s].d[k]]_vars

\* get_quantity was given a function, called it once on the run, and the
\* prediction the function read is now cached on a run built without truth
C8_Witness ==
    /\ op.name = "get_quantity"
    /\ op.quantity = Fn("momentum_prediction")
    /\ calls = <<<<"momentum_prediction", "a">>>>
    /\ ret.exc = ""
    /\ IsNone(Run.d["momentum_residuals"])
    /\ ~IsNone(Run.d["_momentum_prediction"])

-----------------------------------------------------------------------------
(* Properties of a combined run                                            *)

\* the attribute exists on the run: a property of its class, an entry of its
\* __dict__ (whatever the value, None included) or a method
Exposes(r, name) == name \in Properties(r.cls) \union DOMAIN r.d \union Methods
LookedUp(o) == IF o.name = "getattr" THEN o.attr ELSE o.quantity.v

C1_Step ==
    (op'.name \in {"getattr", "get_quantity"} /\ op'.slot = "c") =>
        LET name == LookedUp(op')
            rs == runs["c"].d["runs"].v
            exposing == {k \in DOMAIN rs : Exposes(runs[rs[k]], name)}
        IN  name \notin DOMAIN runs["c"].d \union Methods =>
                IF exposing = {}
                THEN ret' = Raise("AttributeError") /\ runs' = runs
                ELSE LET first == CHOOSE k \in exposing : \A j \in exposing : k <= j
                         g == GetAttr(runs[rs[first]], name)
                     IN  ret' = [exc |-> g.exc, val |-> g.val]

\* C1: a name the combined run does not own, looked up on it directly or by
\* get_quantity, gives what reading that name gives on the first run of the
\* list on which the attribute exists, a None value included; when it exists
\* on no run of the list the lookup raises AttributeError, returns nothing and
\* changes nothing.
C1_FirstExposingRun == [][C1_Step]_vars

\* the lookup of x_residuals fell through the first run, which lacks the
\* attribute, to the second run, and returned the second run's array
C1_Witness ==
    /\ op.name \in {"getattr", "get_quantity"}
    /\ LookedUp(op) = "x_residuals"
    /\ runs["c"].cls = "CombinedRegressionRun"
    /\ runs["c"].d["runs"].v = <<"a", "b">>
    /\ ~Exposes(runs["a"], "x_residuals")
    /\ Exposes(runs["b"], "x_residuals")
    /\ ret = Ok(runs["b"].d["x_residuals"])
    /\ ret.val.t = "ndarray"

-----------------------------------------------------------------------------
(* Properties of tabulate_statistics                                       *)

IsTable == op.name = "tabulate_statistics"
TabQuantityList == IF op.quantities.t = "str" THEN <<op.quantities>> ELSE op.quantities.v
TabLabelList == IF op.stat_labels.t = "str" THEN <<op.stat_labels.v>> ELSE op.stat_labels.v
TabRunLabels == [j \in DOMAIN op.run_list |-> runs[op.run_list[j]].d["run_label"].v]

\* every quantity of the call reads as an array on every run of the call
TabReadable ==
    \A j \in DOMAIN op.run_list : \A i \in DOMAIN TabQuantityList :
        LET g == GetAttr(runs[op.run_list[j]], TabQuantityList[i].v)
        IN  g.exc = "" /\ g.val.t = "ndarray"

\* statistic `stat` of quantity i of run j under the selection of the call
TabExpected(stat, i, j) ==
    LET x == Select(GetAttr(runs[op.run_list[j]], TabQuantityList[i].v).val.v, op.selection)
    IN  Float(IF stat.t = "str" THEN statistic_map(stat.v, x) ELSE CallStatistic(stat.v, x))

TabData == ret.val.v[2][1]
TabCell(i, j) == IF op.transpose THEN TabData[j][i] ELSE TabData[i][j]

\* C2: with a list of statistics as long as the list of quantities, the
\* table is produced and the row of quantity i holds statistic i of
\* quantity i for every run.
C2_RowUsesItsStatistic ==
    (IsTable /\ op.statistic.t = "list" /\ TabReadable
        /\ Len(op.statistic.v) = Len(TabQuantityList)) =>
            /\ ret.exc = ""
            /\ \A i \in DOMAIN TabQuantityList : \A j \in DOMAIN op.run_list :
                  TabCell(i, j) = TabExpected(op.statistic.v[i], i, j)

\* C5: the table has one cell per quantity and run, holding the chosen
\* statistic of that quantity of that run under the selection; rows are
\* labelled by stat_labels and columns by the run labels, in input order, and
\* with transpose the rows are the runs and the columns the statistics.
C5_Table ==
    (IsTable /\ TabReadable) =>
        LET m == Len(TabQuantityList)
            n == Len(op.run_list)
            chosen(i) == IF op.statistic.t = "list" THEN op.statistic.v[i] ELSE op.statistic
        IN  /\ ret.exc = ""
            /\ ret.val.v[1] = "tabulate"
            /\ Len(TabData) = (IF op.transpose THEN n ELSE m)
            /\ \A k \in DOMAIN TabData : Len(TabData[k]) = (IF op.transpose THEN m ELSE n)
            /\ \A i \in 1..m : \A j \in 1..n :
                  /\ TabCell(i, j).t = "float"
                  /\ TabCell(i, j) = TabExpected(chosen(i), i, j)
            /\ ret.val.v[2][2] = (IF op.transpose THEN TabLabelList ELSE TabRunLabels)
            /\ ret.val.v[2][3] = (IF op.transpose THEN TabRunLabels ELSE TabLabelList)

\* C5 for the statistics given by name, 'resolution' or 'mean' for all rows
C5_TableOfNamedStatistic == (IsTable /\ op.statistic.t = "str") => C5_Table

-----------------------------------------------------------------------------
(* Properties of the plotting functions                                    *)

DrawCalls == {"hist", "plot", "errorbar"}
HistDefaults ==
    Put(Put(Put(Put(NoArgs, "bins", 200), "density", TRUE), "histtype", "step"), "lw", 2)
ProfileDefaults == Put(NoArgs, "lw", 2)
\* keyword arguments that the binned-plot helpers take as parameters
HelperParameters == {"errors", "x_errors"}

\* C6: every run of a successful plot is drawn once, in input order, and the
\* style arguments of its drawing call hold, for every style key, the run's
\* own value if the run has one, else the caller's shared value if given,
\* else the built-in default.
C6_StyleMerge ==
    op.name \in PlotFunctions =>
        LET shared == op.args.hist_args
            defaults == IF op.name = "plot_histograms" THEN HistDefaults ELSE ProfileDefaults
            params == IF op.name = "plot_histograms" THEN {} ELSE HelperParameters
            draws == SelectSeq(renders, LAMBDA c : c.name \in DrawCalls)
        IN  /\ ret.exc = "" => [k \in DOMAIN draws |-> draws[k].slot] = op.args.run_list
            /\ \A k \in DOMAIN draws :
                 LET own == runs[draws[k].slot].d["plot_args"].v
                 IN  \A key \in (DOMAIN own \union DOMAIN shared \union DOMAIN defaults) \ params :
                        /\ key \in DOMAIN draws[k].args
                        /\ draws[k].args[key] =
                              (IF key \in DOMAIN own THEN own[key]
                               ELSE IF key \in DOMAIN shared THEN shared[key]
                               ELSE defaults[key])

\* a histogram drawn for a run whose own lw overrides the shared lw, with the
\* shared color, which the run does not set, and the default bins
C6_Witness ==
    /\ op.name = "plot_histograms"
    /\ ret.exc = ""
    /\ \E k \in DOMAIN renders :
         /\ renders[k].name = "hist"
         /\ "lw" \in DOMAIN op.args.hist_args
         /\ op.args.hist_args["lw"] = 1
         /\ "lw" \in DOMAIN runs[renders[k].slot].d["plot_args"].v
         /\ runs[renders[k].slot].d["plot_args"].v["lw"] = 3
         /\ renders[k].args["lw"] = 3
         /\ "color" \notin DOMAIN runs[renders[k].slot].d["plot_args"].v
         /\ renders[k].args["color"] = "k"
         /\ renders[k].args["bins"] = 200

-----------------------------------------------------------------------------
(* C11: apply_binning regroups the selected values by bin                  *)

\* the positions of the events that a selection keeps, in the order it
\* keeps them
SelectedPositions(selection, n) ==
    IF selection.t = "Ellipsis" THEN [k \in 1..n |-> k]
    ELSE IF selection.t = "index" THEN selection.v
    ELSE LET T == Trues(selection.v)
         IN  [k \in 1..Cardinality(T) |->
                CHOOSE i \in T : Cardinality({j \in T : j <= i}) = k]

\* the selected events that fall in bin b, as positions in the selection
InBin(a, b) ==
    LET p == SelectedPositions(a.selection, Len(a.values.v))
    IN  {k \in DOMAIN p : a.binning.indices[p[k]] = b - 1}

RECURSIVE Flatten(_)
Flatten(groups) == IF groups = <<>> THEN <<>> ELSE Head(groups) \o Flatten(Tail(groups))

\* C11: apply_binning returns one group per bin (edges minus 1); group b
\* holds exactly the selected values whose event has bin index b, each once
\* and in the order of the selection, so that the groups together hold as
\* many values as there are selected events whose index is not the exclusion
\* sentinel; a bin without events gives an empty group and no error.
C11_Regrouping ==
    op.name = "apply_binning" =>
        LET a == op.args
            p == SelectedPositions(a.selection, Len(a.values.v))
        IN  /\ ret.exc = ""
            /\ Len(ret.val) = Len(a.binning.edges) - 1
            /\ \A b \in DOMAIN ret.val :
                 /\ Len(ret.val[b]) = Cardinality(InBin(a, b))
                 /\ \A k \in InBin(a, b) :
                      ret.val[b][Cardinality({j \in InBin(a, b) : j <= k})] = a.values.v[p[k]]
            /\ Len(Flatten(ret.val)) =
                 Cardinality({k \in DOMAIN p : a.binning.indices[p[k]] # Excluded})

\* a mask that drops an event, a selected event that is excluded, a bin that
\* stays empty and a bin that receives two different values in their order
C11_Witness ==
    /\ op.name = "apply_binning"
    /\ op.args.selection.t = "mask"
    /\ \E i \in DOMAIN op.args.selection.v : ~op.args.selection.v[i]
    /\ \E i \in DOMAIN op.args.selection.v :
            op.args.selection.v[i] /\ op.args.binning.indices[i] = Excluded
    /\ ret.exc = ""
    /\ ret.val = <<<<>>, <<7, 5>>>>

-----------------------------------------------------------------------------
(* C12: what a binned-plot helper draws                                    *)

\* the selected values of the events of bin b, in the order of the selection
GroupOf(values, binning, selection, b) ==
    LET p == SelectedPositions(selection, Len(values))
        K == {k \in DOMAIN p : binning.indices[p[k]] = b - 1}
    IN  [r \in 1..Cardinality(K) |->
            values[p[CHOOSE k \in K : Cardinality({j \in K : j <= k}) = r]]]

\* the defaults of the helper for an error-bar plot and for a point plot
BinnedDefaults(errors) ==
    IF errors THEN Put(Put(Put(Put(NoArgs, "lw", 2), "marker", ""), "capsize", 4), "capthick", 2)
    ELSE Put(Put(NoArgs, "lw", 2), "marker", "o")

\* C12: a call of plot_binned_resolution or plot_binned_bias that returns has
\* made exactly one render call, for its run: x is the bin centres and y the
\* statistic of each bin of the selected values (68th percentile of the
\* absolute values, or the mean; NaN for an empty bin); without errors it is
\* plot(x, y), with errors it is errorbar(x, y, yerr, xerr) with the standard
\* errors of the bins and the half-widths of the bins, or no xerr when
\* x_errors is false; the style is the caller's options, completed by the
\* defaults only where the caller gave none.
C12_OneRender ==
    (op.name \in BinnedFunctions /\ ret.exc = "") =>
        LET a == op.args
            kw == a.kwargs
            errors == IF "errors" \in DOMAIN kw THEN kw["errors"] ELSE FALSE
            x_errors == IF "x_errors" \in DOMAIN kw THEN kw["x_errors"] ELSE TRUE
            edges == a.binning.edges
            values == GetAttr(runs[op.slot], a.quantity.v).val.v
            groups == [b \in 1..(Len(edges) - 1) |->
                            GroupOf(values, a.binning, a.selection, b)]
            x == Arr([b \in 1..(Len(edges) - 1) |-> Div(edges[b] + edges[b + 1], 2)])
            y == Arr([b \in 1..(Len(edges) - 1) |->
                        IF groups[b] = <<>> THEN NaN
                        ELSE IF op.name = "plot_binned_resolution" THEN resolution(groups[b])
                        ELSE mean(groups[b])])
            own == DOMAIN kw \ {"errors", "x_errors"}
            defaults == BinnedDefaults(errors)
        IN  /\ Len(renders) = 1
            /\ renders[1].slot = op.slot
            /\ renders[1].name = (IF errors THEN "errorbar" ELSE "plot")
            /\ renders[1].val =
                 (IF errors
                  THEN <<x, y, Arr(binned_std_errors(groups)),
                         IF x_errors THEN Arr(bin_halfwidths(edges)) ELSE None>>
                  ELSE <<x, y>>)
            /\ DOMAIN renders[1].args = own \union DOMAIN defaults
            /\ \A k \in DOMAIN renders[1].args :
                 renders[1].args[k] = (IF k \in own THEN kw[k] ELSE defaults[k])

\* error bars of the resolution of the momentum residuals, all events in the
\* first bin and none in the second, drawn with the caller's marker, line
\* width and caps
C12_Witness ==
    /\ op.name = "plot_binned_resolution"
    /\ ret.exc = ""
    /\ op.args.quantity = Str("momentum_residuals")
    /\ op.args.selection = Ellipsis
    /\ \A c \in DOMAIN op.args.binning.indices : op.args.binning.indices[c] = 0
    /\ Len(renders) = 1
    /\ renders[1].name = "errorbar"
    /\ renders[1].val[2].v[1] # NaN
    /\ renders[1].val[2].v[2] = NaN
    /\ renders[1].args["marker"] = "x"
    /\ renders[1].args["capsize"] = 0
    /\ renders[1].args["lw"] = 3

-----------------------------------------------------------------------------
(* C13: a prediction whose computation failed                              *)

\* val is the unified array of run r for q: one entry per event, taken from
\* the hypothesis configured for the particle type of the event
Complete(r, q, val) ==
    /\ val.t = "ndarray"
    /\ Len(val.v) = r.d["n_events"].v
    /\ \A i \in 1..r.d["n_events"].v :
         LET types == TypesOf(r.d["particle_label_map"].v, r.d["true_labels"].v[i])
         IN  /\ types # {}
             /\ types \subseteq DOMAIN r.d[MapName(q)].v
             /\ \A p \in types : val.v[i] = CallLambda(r, r.d[MapName(q)].v[p])[i]

C13_Step ==
    \A q \in Quantities :
        (/\ IsRead(PropName(q))
         /\ Run.cls = "FitQun1RingFit"
         /\ ret.exc # ""
         /\ op'.name = "get_quantity"
         /\ op'.quantity = Str(PropName(q)))
            => (ret'.exc # "" \/ Complete(runs'["a"], q, ret'.val))

\* C13: when an access to a unified prediction of a FitQun1RingFit run has
\* failed, the next access to the same prediction fails as well or returns
\* the complete unified array; it does not return the array that the failed
\* access left partly filled.
C13_NoPartialPrediction == [][C13_Step]_vars

-----------------------------------------------------------------------------
(* C14: the label of a run's style                                         *)

\* plot_args['label'] of the run in slot s is its run_label
Labelled(s) ==
    /\ "label" \in DOMAIN runs[s].d["plot_args"].v
    /\ runs[s].d["plot_args"].v["label"] = runs[s].d["run_label"].v

\* no step changes the style or the label of a run that exists
C14_Step ==
    \A s \in Slots : runs[s] # NoRun =>
        /\ runs'[s] # NoRun
        /\ runs'[s].d["plot_args"] = runs[s].d["plot_args"]
        /\ runs'[s].d["run_label"] = runs[s].d["run_label"]

\* C14: in every state every run's plot_args['label'] is its run_label, also
\* when the caller passed a label of its own and for a combined run that
\* takes over the style of its first run under another label; and no
\* construction of a combined run and no call of plot_histograms,
\* plot_resolution_profile, plot_bias_profile or tabulate_statistics changes
\* the plot_args or the run_label of any run.
C14_LabelIsRunLabel ==
    /\ [](\A s \in Slots : runs[s] # NoRun => Labelled(s))
    /\ [][C14_Step]_vars

\* histograms drawn for a run built with a label of its own and for the
\* combined run that took over its style under the label "both"
C14_Witness ==
    /\ op.name = "plot_histograms"
    /\ ret.exc = ""
    /\ op.args.run_list = <<"a", "c">>
    /\ runs["c"].d["runs"].v = <<"a", "b">>
    /\ runs["c"].d["run_label"] = Str("both")
    /\ runs["c"].d["plot_args"].v = [label |-> "both", lw |-> 3]
    /\ runs["a"].d["plot_args"].v = [label |-> "fiTQun", lw |-> 3]
    /\ Len(renders) > 2
    /\ renders[1].args["label"] = "fiTQun"
    /\ renders[2].args["label"] = "both"

====
